---- MODULE Spec2Model ----
(***************************************************************************)
(* Model of convert.py: QuantumultX reject rules are fetched from the URLs *)
(* of rules.txt, merged, translated to AdGuard / hosts syntax, filtered    *)
(* against white.txt and written to adguard-rules.txt.                     *)
(*                                                                         *)
(* Text is modelled as TLA+ strings, character by character.  The source's *)
(* Chinese message texts are rendered in ASCII (the module's strings are   *)
(* ASCII only); every other string is the source's.                        *)
(***************************************************************************)
EXTENDS Integers, Sequences, FiniteSets, TLC

\* ------------------------------------------------------------------ bounds

\* most lines of rules.txt
MaxConfigLines == 2
\* most input lines handed to merge_and_convert in the merge-only specification
MaxLines == 2

\* ------------------------------------------------------------ text helpers

\* s[i:] of Python, 1-based
Rest(s, i) == IF i > Len(s) THEN "" ELSE SubSeq(s, i, Len(s))

\* the one-character string at position i, "" beyond the end
Ch(s, i) == IF i >= 1 /\ i <= Len(s) THEN SubSeq(s, i, i) ELSE ""

\* the characters \s of a regular expression and str.strip() remove
IsSpace(c) == c \in {" ", "\t", "\n", "\r"}

\* the letters str.lower() changes, each with its lower-case letter
LowerOf ==
    [c \in {"A", "B", "C", "D", "E", "F", "G", "H", "I", "J", "K", "L", "M",
            "N", "O", "P", "Q", "R", "S", "T", "U", "V", "W", "X", "Y", "Z"} |->
        CASE c = "A" -> "a" [] c = "B" -> "b" [] c = "C" -> "c" [] c = "D" -> "d"
          [] c = "E" -> "e" [] c = "F" -> "f" [] c = "G" -> "g" [] c = "H" -> "h"
          [] c = "I" -> "i" [] c = "J" -> "j" [] c = "K" -> "k" [] c = "L" -> "l"
          [] c = "M" -> "m" [] c = "N" -> "n" [] c = "O" -> "o" [] c = "P" -> "p"
          [] c = "Q" -> "q" [] c = "R" -> "r" [] c = "S" -> "s" [] c = "T" -> "t"
          [] c = "U" -> "u" [] c = "V" -> "v" [] c = "W" -> "w" [] c = "X" -> "x"
          [] c = "Y" -> "y" [] c = "Z" -> "z"]

\* str.lower() on one character
LowerCh(c) == IF c \in DOMAIN LowerOf THEN LowerOf[c] ELSE c

RECURSIVE Lower(_)
\* str.lower()
Lower(s) == IF s = "" THEN "" ELSE LowerCh(Ch(s, 1)) \o Lower(Rest(s, 2))

\* str.startswith(p)
StartsWith(s, p) == Len(p) <= Len(s) /\ SubSeq(s, 1, Len(p)) = p

\* str.endswith(p)
EndsWith(s, p) == Len(p) <= Len(s) /\ SubSeq(s, Len(s) - Len(p) + 1, Len(s)) = p

\* p in s
Contains(s, p) == \E i \in 1..(Len(s) - Len(p) + 1) : SubSeq(s, i, i + Len(p) - 1) = p

RECURSIVE LStrip(_)
LStrip(s) == IF s # "" /\ IsSpace(Ch(s, 1)) THEN LStrip(Rest(s, 2)) ELSE s

RECURSIVE RStrip(_)
RStrip(s) ==
    IF s # "" /\ IsSpace(Ch(s, Len(s))) THEN RStrip(SubSeq(s, 1, Len(s) - 1)) ELSE s

\* str.strip()
Strip(s) == LStrip(RStrip(s))

RECURSIVE SkipSpace(_, _)
\* a greedy \s* from position i: the position after it
SkipSpace(s, i) == IF IsSpace(Ch(s, i)) THEN SkipSpace(s, i + 1) ELSE i

RECURSIVE SkipToken(_, _)
\* a greedy [^\s,]* from position i: the position after it
SkipToken(s, i) ==
    IF i <= Len(s) /\ ~IsSpace(Ch(s, i)) /\ Ch(s, i) # ","
    THEN SkipToken(s, i + 1) ELSE i

RECURSIVE SkipHost(_, _)
\* a greedy [^\s\/,]* from position i: the position after it
SkipHost(s, i) ==
    IF i <= Len(s) /\ ~IsSpace(Ch(s, i)) /\ Ch(s, i) # "," /\ Ch(s, i) # "/"
    THEN SkipHost(s, i + 1) ELSE i

\* a literal of a re.I pattern at position i
LitAt(s, i, lit) ==
    i + Len(lit) - 1 <= Len(s) /\ Lower(SubSeq(s, i, i + Len(lit) - 1)) = lit

\* the tail \s*,\s*reject\s*$ of the four patterns, from position i
RejectTail(s, i) ==
    LET c == SkipSpace(s, i)
        r == SkipSpace(s, c + 1)
    IN  /\ Ch(s, c) = ","
        /\ LitAt(s, r, "reject")
        /\ SkipSpace(s, r + 6) = Len(s) + 1

\* the value convert_rule_line returns for "no rule"; the caller tests only its
\* truth value, and no translated rule is the empty string
None == ""

\* re.match(rf'{kw}\s*,\s*{TOKEN_RE}\s*,\s*reject\s*$', s, re.I): group 1, or None.
\* The classes \s, "," and [^\s,] are disjoint, so the greedy match is the only one.
TOKEN_RE(s, kw) ==
    LET c == SkipSpace(s, Len(kw) + 1)
        b == SkipSpace(s, c + 1)
        e == SkipToken(s, b)
    IN  IF LitAt(s, 1, kw) /\ Ch(s, c) = "," /\ e > b /\ RejectTail(s, e)
        THEN SubSeq(s, b, e - 1) ELSE None

\* ([^\s\/,]+)(/[^\s,]*)?\s*,\s*reject\s*$ from position b: groups 2 and 3 joined
UrlHostPath(s, b) ==
    LET h == SkipHost(s, b)
        p == IF Ch(s, h) = "/" THEN SkipToken(s, h) ELSE h
    IN  IF h > b /\ RejectTail(s, p) THEN SubSeq(s, b, p - 1) ELSE None

\* the length of ((?:https?|wss?)://) at position b, 0 when it does not match
SchemeLen(s, b) ==
    IF LitAt(s, b, "https://") THEN 8
    ELSE IF LitAt(s, b, "http://") THEN 7
    ELSE IF LitAt(s, b, "wss://") THEN 6
    ELSE IF LitAt(s, b, "ws://") THEN 5
    ELSE 0

\* re.match(r'url\s*,\s*(?:((?:https?|wss?)://)?)([^\s\/,]+)(/[^\s,]*)?\s*,\s*reject\s*$'):
\* domain + path, or None.  The scheme group is optional: the match with it is
\* tried first, then the match without it.
UrlMatch(s) ==
    LET c == SkipSpace(s, 4)
        b == SkipSpace(s, c + 1)
        n == SchemeLen(s, b)
        withScheme == IF n > 0 THEN UrlHostPath(s, b + n) ELSE None
    IN  IF ~(LitAt(s, 1, "url") /\ Ch(s, c) = ",") THEN None
        ELSE IF withScheme # None THEN withScheme
        ELSE UrlHostPath(s, b)

\* the rule of a host line
HostRule(domain) == IF domain \in {"*", ""} THEN None ELSE "0.0.0.0 " \o domain

\* a host-suffix line translated as a host line is
HostSuffixAsHosts(suffix) == "0.0.0.0 " \o suffix

\* the rule of a host-suffix line
HostSuffixRule(suffix) == "||" \o suffix \o "^"

\* a host-keyword rule that lost its terminator
HostKeywordOpen(keyword) == "||" \o keyword

\* the rule of a host-keyword line
HostKeywordRule(keyword) == "||" \o keyword \o "^"

\* the rule of a url line, from domain + path
UrlRule(domainPath) == "||" \o domainPath \o "^"

\* convert_rule_line(line): the translated rule, or None
convert_rule_line(line) ==
    LET s == Strip(line)
        host == TOKEN_RE(s, "host")
        suffix == TOKEN_RE(s, "host-suffix")
        keyword == TOKEN_RE(s, "host-keyword")
        url == UrlMatch(s)
    IN  IF host # None THEN HostRule(host)
        ELSE IF suffix # None THEN HostSuffixRule(suffix)
        ELSE IF keyword # None THEN HostKeywordRule(keyword)
        ELSE IF url # None THEN UrlRule(url)
        ELSE None

\* ------------------------------------------------------------- whitelist

RECURSIVE SkipNonSpace(_, _)
\* the position after the run of non-blank characters from position i
SkipNonSpace(s, i) ==
    IF i <= Len(s) /\ ~IsSpace(Ch(s, i)) THEN SkipNonSpace(s, i + 1) ELSE i

\* rule.split()[1]
SplitSecond(rule) ==
    LET b1 == SkipSpace(rule, 1)
        e1 == SkipNonSpace(rule, b1)
        b2 == SkipSpace(rule, e1)
        e2 == SkipNonSpace(rule, b2)
    IN  IF e2 > b2 THEN SubSeq(rule, b2, e2 - 1) ELSE ""

RECURSIVE SkipNonSlash(_, _)
\* the position of the first "/" from position i, Len(s) + 1 when there is none
SkipNonSlash(s, i) ==
    IF i <= Len(s) /\ Ch(s, i) # "/" THEN SkipNonSlash(s, i + 1) ELSE i

\* s.split('/')[0]
BeforeSlash(s) == IF s = "" THEN "" ELSE SubSeq(s, 1, SkipNonSlash(s, 1) - 1)

\* the domain is_whitelisted extracts from a rule, "" when it extracts none
RuleDomainOf(rule) ==
    IF StartsWith(rule, "0.0.0.0 ") THEN Lower(SplitSecond(rule))
    ELSE IF StartsWith(rule, "||") /\ EndsWith(rule, "^")
         THEN Lower(BeforeSlash(SubSeq(rule, 3, Len(rule) - 1)))
    ELSE ""

\* domain == wl or domain.endswith(f'.{wl}')
MatchesEntry(domain, wl) == domain = wl \/ EndsWith(domain, "." \o wl)

\* a whitelist test that compares for equality only and misses the subdomains
is_whitelistedExact(rule, white_list) == RuleDomainOf(rule) \in white_list

\* is_whitelisted(rule, white_list)
is_whitelisted(rule, white_list) ==
    IF white_list = {} THEN FALSE
    ELSE LET domain == RuleDomainOf(rule)
         IN  IF domain = "" THEN FALSE
             ELSE \E wl \in white_list : MatchesEntry(domain, wl)

\* ------------------------------------------------------------------ files

\* a path with no file behind it
NoFile == [exists |-> FALSE, lines |-> <<>>]

\* a file, as the sequence of its lines
File(lines) == [exists |-> TRUE, lines |-> lines]

\* the lines a rules.txt is made of
ConfigLines ==
    {"", "# rule sources", "https://one.example/qx.list", " https://two.example/qx.list "}

RECURSIVE SeqsUpTo(_, _)
\* the sequences over S of length at most n
SeqsUpTo(S, n) ==
    IF n = 0 THEN {<<>>}
    ELSE LET shorter == SeqsUpTo(S, n - 1)
         IN  shorter \cup {Append(q, x) : q \in {r \in shorter : Len(r) = n - 1}, x \in S}

\* rules.txt: missing, or up to MaxConfigLines lines
ConfigFiles == {NoFile} \cup {File(q) : q \in SeqsUpTo(ConfigLines, MaxConfigLines)}

\* white.txt: missing, or a file of entries
WhiteFiles == {NoFile, File(<<"# allow", "ads.example.com", "@@||cdn.example.net^">>)}

\* adguard-rules.txt before the run: missing, or the complete output of an earlier run
OldOutput == File(<<"# previous run", "0.0.0.0 old.example">>)
OutputFiles == {NoFile, OldOutput}

\* the decoded response bodies a source may serve
Bodies ==
    { "host, a.com, reject\nfoobar\n# note\n",
      "host, a.com, reject\n\n  host-suffix, b.com, reject  ",
      "host-keyword, ad-x, reject\nurl, https://c.com/p, reject",
      "# nothing to block\nfoobar\nhost, *, reject",
      "" }

\* the ways requests.get / raise_for_status fail (all are RequestException)
FetchErrors == {"ConnectionError", "Timeout", "HTTPError"}

\* the stripped, non-blank lines merge_and_convert is checked on
SampleLines ==
    { "host, a.com, reject",
      "host-suffix, a.com, reject",
      "host-keyword, ad-x, reject",
      "url, https://a.com/p, reject",
      "url, ftp://a.com/p, reject",
      "URL , a.com , Reject",
      "# note",
      "Host-Suffix,sub.Ads.Example.com,REJECT",
      "host, ads.example.com.evil.com, reject",
      "url, http://ads.example.com/x, reject" }

\* the whitelists merge_and_convert is checked with (lower-case domains)
WhiteLists == {{}, {"a.com", "ads.example.com"}}

\* ------------------------------------------------------------------ state

VARIABLES
    pc,                 \* where the run is
    exitCode,           \* the process's exit code, -1 while it runs
    configFile,         \* rules.txt
    whiteFile,          \* white.txt
    outFile,            \* adguard-rules.txt
    prevFile,           \* adguard-rules.txt as the run found it (history)
    urls,               \* main: urls
    white_list,         \* main: white_list
    url_i,              \* main: position of the for loop over urls
    fetched,            \* what each fetch returned, in order (history)
    all_rules,          \* main: all_rules
    line_i,             \* merge_and_convert: position of the for loop over all_rules
    out_lines,          \* merge_and_convert: out_lines
    origin,             \* for each line of out_lines, the input position it came from, 0 for the header (history)
    converted,          \* merge_and_convert: converted
    converted_count,    \* merge_and_convert: converted_count
    unrecognized_count, \* merge_and_convert: unrecognized_count
    whitelisted_count   \* merge_and_convert: whitelisted_count

envVars == <<configFile, whiteFile, prevFile>>
mainVars == <<urls, white_list, url_i, fetched, all_rules>>
mergeVars == <<line_i, out_lines, origin, converted, converted_count,
               unrecognized_count, whitelisted_count>>
vars == <<pc, exitCode, outFile, envVars, mainVars, mergeVars>>

\* --------------------------------------------------------------- operators

RECURSIVE Dedup(_, _)
\* the loop of read_rule_urls: strip, skip blanks and comments, keep first occurrences
Dedup(lines, seen) ==
    IF lines = <<>> THEN <<>>
    ELSE LET u == Strip(Head(lines))
         IN  IF u = "" \/ StartsWith(u, "#") \/ u \in seen
             THEN Dedup(Tail(lines), seen)
             ELSE <<u>> \o Dedup(Tail(lines), seen \cup {u})

\* the list read_rule_urls returns (it exits instead when the list is empty)
read_rule_urls(file) == Dedup(file.lines, {})

RECURSIVE SplitLines(_)
\* text.splitlines()
SplitLines(text) ==
    IF text = "" THEN <<>>
    ELSE LET n == Len(text)
             k == CHOOSE i \in 1..(n + 1) :
                    /\ i = n + 1 \/ Ch(text, i) = "\n"
                    /\ \A j \in 1..(i - 1) : Ch(text, j) # "\n"
         IN  <<SubSeq(text, 1, k - 1)>> \o SplitLines(Rest(text, k + 1))

RECURSIVE StripNonBlank(_)
\* [ln.strip() for ln in lines if ln.strip()]
StripNonBlank(lines) ==
    IF lines = <<>> THEN <<>>
    ELSE (IF Strip(Head(lines)) = "" THEN <<>> ELSE <<Strip(Head(lines))>>)
         \o StripNonBlank(Tail(lines))

\* what fetch_single_url_rules returns: the lines of a response, [] on a failure
fetch_single_url_rules(response) ==
    IF response.ok THEN StripNonBlank(SplitLines(response.text)) ELSE <<>>

\* an assignment in place of the extend: the last source replaces the ones before
ExtendReplaces(rules, lines) == IF lines # <<>> THEN lines ELSE rules

\* main: if lines: all_rules.extend(lines)
Extend(rules, lines) == IF lines # <<>> THEN rules \o lines ELSE rules

\* the header block of merge_and_convert
header(wl) ==
    << "# ===============================",
       "# fetched, merged and converted from QuantumultX online rules",
       "# rule sources: rules.txt",
       "# whitelist filter: " \o ToString(Cardinality(wl)) \o " rules",
       "# supported rule types:",
       "#  - host, domain, reject  -> hosts: 0.0.0.0 domain",
       "#  - host-suffix, suffix, reject -> AdGuard: ||domain^",
       "#  - host-keyword, keyword, reject -> AdGuard: ||keyword^",
       "#  - url, scheme://domain/path, reject -> AdGuard: ||domain/path^",
       "# note: comments are kept; unrecognized rules are written as comments",
       "# ===============================\n" >>

\* the prefixes of the three diagnostic comments of merge_and_convert
SKIPPED == "# skipped non-reject rule: "
WHITELISTED == "# filtered by whitelist: "
UNRECOGNIZED == "# unrecognized rule: "

\* the loop without its "reject" test: every line goes to convert_rule_line
NotRejectNever(stripped) == FALSE

\* 'reject' not in stripped.lower()
NotReject(stripped) == ~Contains(Lower(stripped), "reject")

\* a dedup test that never finds the rule: every translated line is emitted
IsNewAlways(rule, seen) == TRUE

\* converted_rule not in converted
IsNew(rule, seen) == rule \notin seen

\* main without its empty check: merge_and_convert runs on no lines
NoRulesNever(rules) == FALSE

\* main: if not all_rules
NoRules(rules) == rules = <<>>

\* -------------------------------------------------------------------- run

\* the responses a fetch may get
Responses ==
    {[ok |-> TRUE, text |-> b, error |-> ""] : b \in Bodies}
    \cup {[ok |-> FALSE, text |-> "", error |-> e] : e \in FetchErrors}

\* the locals of merge_and_convert before it is called
MergeIdle ==
    /\ line_i = 1
    /\ out_lines = <<>>
    /\ origin = <<>>
    /\ converted = {}
    /\ converted_count = 0
    /\ unrecognized_count = 0
    /\ whitelisted_count = 0

\* the start of a run: python convert.py
Init ==
    /\ pc = "read_rule_urls"
    /\ exitCode = -1
    /\ configFile \in ConfigFiles
    /\ whiteFile \in WhiteFiles
    /\ outFile \in OutputFiles
    /\ prevFile = outFile
    /\ urls = <<>>
    /\ white_list = {}
    /\ url_i = 1
    /\ fetched = <<>>
    /\ all_rules = <<>>
    /\ MergeIdle

\* sys.exit(code), or the return of main with code 0
Exit(code) == pc' = "exit" /\ exitCode' = code

\* an uncaught exception: the interpreter prints the traceback and exits with 1
Crash == pc' = "crashed" /\ exitCode' = 1

\* main: urls = read_rule_urls(URL_CONFIG_FILE)
ReadRuleUrls ==
    /\ pc = "read_rule_urls"
    /\ \/ /\ ~configFile.exists
          /\ Exit(1)
          /\ UNCHANGED urls
       \/ /\ configFile.exists
          /\ read_rule_urls(configFile) = <<>>
          /\ Exit(1)
          /\ UNCHANGED urls
       \/ /\ configFile.exists
          /\ read_rule_urls(configFile) # <<>>
          /\ urls' = read_rule_urls(configFile)
          /\ pc' = "load_white_list"
          /\ UNCHANGED exitCode
    /\ UNCHANGED <<outFile, envVars, white_list, url_i, fetched, all_rules, mergeVars>>

\* main: white_list = load_white_list().  With white.txt present the function
\* compiles r'^@@\||?https?://)?([^|^$]+)', which raises re.error ("nothing to
\* repeat") outside its try block: the lines of the file are never read.
LoadWhiteList ==
    /\ pc = "load_white_list"
    /\ \/ /\ ~whiteFile.exists
          /\ white_list' = {}
          /\ pc' = "fetch"
          /\ UNCHANGED exitCode
       \/ /\ whiteFile.exists
          /\ Crash
          /\ UNCHANGED white_list
    /\ UNCHANGED <<outFile, envVars, urls, url_i, fetched, all_rules, mergeVars>>

\* main: one turn of the loop over urls
FetchUrl ==
    /\ pc = "fetch"
    /\ url_i <= Len(urls)
    /\ \E response \in Responses :
          /\ all_rules' = Extend(all_rules, fetch_single_url_rules(response))
          /\ fetched' = Append(fetched, response)
    /\ url_i' = url_i + 1
    /\ UNCHANGED <<pc, exitCode, outFile, envVars, urls, white_list, mergeVars>>

\* main after the loop: exit when nothing was fetched, else call merge_and_convert,
\* which sets up its locals
CheckRules ==
    /\ pc = "fetch"
    /\ url_i > Len(urls)
    /\ \/ /\ NoRules(all_rules)
          /\ Exit(1)
          /\ UNCHANGED mergeVars
       \/ /\ ~NoRules(all_rules)
          /\ pc' = "merge"
          /\ out_lines' = header(white_list)
          /\ origin' = [i \in 1..Len(header(white_list)) |-> 0]
          /\ UNCHANGED <<exitCode, line_i, converted, converted_count,
                         unrecognized_count, whitelisted_count>>
    /\ UNCHANGED <<outFile, envVars, mainVars>>

\* merge_and_convert: one turn of the loop over all_rules
MergeLine ==
    /\ pc = "merge"
    /\ line_i <= Len(all_rules)
    /\ LET line == all_rules[line_i]
           stripped == Strip(line)
           converted_rule == convert_rule_line(stripped)
           Emit(x) == /\ out_lines' = Append(out_lines, x)
                      /\ origin' = Append(origin, line_i)
       IN  IF line = ""
           THEN UNCHANGED <<out_lines, origin, converted, converted_count,
                            unrecognized_count, whitelisted_count>>
           ELSE IF StartsWith(stripped, "#")
           THEN /\ Emit(stripped)
                /\ UNCHANGED <<converted, converted_count, unrecognized_count,
                               whitelisted_count>>
           ELSE IF NotReject(stripped)
           THEN /\ Emit(SKIPPED \o stripped)
                /\ UNCHANGED <<converted, converted_count, unrecognized_count,
                               whitelisted_count>>
           ELSE IF converted_rule # None
           THEN IF is_whitelisted(converted_rule, white_list)
                THEN /\ whitelisted_count' = whitelisted_count + 1
                     /\ Emit(WHITELISTED \o converted_rule)
                     /\ UNCHANGED <<converted, converted_count, unrecognized_count>>
                ELSE IF IsNew(converted_rule, converted)
                THEN /\ Emit(converted_rule)
                     /\ converted' = converted \cup {converted_rule}
                     /\ converted_count' = converted_count + 1
                     /\ UNCHANGED <<unrecognized_count, whitelisted_count>>
                ELSE UNCHANGED <<out_lines, origin, converted, converted_count,
                                 unrecognized_count, whitelisted_count>>
           ELSE /\ Emit(UNRECOGNIZED \o stripped)
                /\ unrecognized_count' = unrecognized_count + 1
                /\ UNCHANGED <<converted, converted_count, whitelisted_count>>
    /\ line_i' = line_i + 1
    /\ UNCHANGED <<pc, exitCode, outFile, envVars, mainVars>>

\* merge_and_convert: open(output_file, 'w') truncates the file, or raises OSError
\* and leaves it alone
OpenOutput ==
    /\ pc = "merge"
    /\ line_i > Len(all_rules)
    /\ \/ /\ outFile' = File(<<>>)
          /\ pc' = "write"
          /\ UNCHANGED exitCode
       \/ /\ Exit(1)
          /\ UNCHANGED outFile
    /\ UNCHANGED <<envVars, mainVars, mergeVars>>

\* merge_and_convert: f.write("\n".join(out_lines)) and the close of the file.
\* The file holds the joined lines, or, when the write raises OSError (disk
\* full), what reached the disk before: a proper prefix of them.
WriteOutput ==
    /\ pc = "write"
    /\ \/ /\ outFile' = File(out_lines)
          /\ Exit(0)
       \/ /\ \E k \in 0..(Len(out_lines) - 1) : outFile' = File(SubSeq(out_lines, 1, k))
          /\ Exit(1)
    /\ UNCHANGED <<envVars, mainVars, mergeVars>>

Next ==
    \/ ReadRuleUrls
    \/ LoadWhiteList
    \/ FetchUrl
    \/ CheckRules
    \/ MergeLine
    \/ OpenOutput
    \/ WriteOutput

\* a whole run of convert.py
Spec == Init /\ [][Next]_vars

\* a call merge_and_convert(all_rules, ADGUARD_OUTPUT_FILE, white_list) on its own
InitMerge ==
    /\ pc = "merge"
    /\ exitCode = -1
    /\ configFile = File(<<"https://one.example/qx.list">>)
    /\ whiteFile = NoFile
    /\ outFile = OldOutput
    /\ prevFile = outFile
    /\ urls = <<"https://one.example/qx.list">>
    /\ white_list \in WhiteLists
    /\ url_i = 2
    /\ fetched = <<>>
    /\ all_rules \in SeqsUpTo(SampleLines, MaxLines) \ {<<>>}
    /\ line_i = 1
    /\ out_lines = header(white_list)
    /\ origin = [i \in 1..Len(header(white_list)) |-> 0]
    /\ converted = {}
    /\ converted_count = 0
    /\ unrecognized_count = 0
    /\ whitelisted_count = 0

NextMerge ==
    \/ MergeLine
    \/ OpenOutput
    \/ WriteOutput

SpecMerge == InitMerge /\ [][NextMerge]_vars

\* ----------------------------------------------------------------- claims

\* a comment line of the output document
IsComment(x) == StartsWith(x, "#")

\* the input positions merge_and_convert has processed
Processed == 1..(line_i - 1)

\* the positions of out_lines that input position i produced
OutAt(i) == {k \in DOMAIN out_lines : origin[k] = i}

\* how often the line x occurs in out_lines
Occurrences(x) == Cardinality({k \in DOMAIN out_lines : out_lines[k] = x})

\* the translation of input position i, None when it has none
RuleAt(i) == convert_rule_line(all_rules[i])

\* the positions of the rule (non-comment) lines of out_lines
RuleLines == {k \in DOMAIN out_lines : ~IsComment(out_lines[k])}

\* C1: no translated (non-comment) rule line occurs twice in the output; a rule
\* line stands where its first occurrence in the input put it, the rule lines are
\* in input order, every translated rule that is not whitelisted is in the output,
\* and every input comment line is in the output, duplicates included.
C1_Dedup ==
    /\ \A j \in RuleLines : \A k \in DOMAIN out_lines : j # k => out_lines[j] # out_lines[k]
    /\ \A k \in 1..(Len(origin) - 1) : origin[k] <= origin[k + 1]
    /\ \A k \in RuleLines :
          /\ origin[k] \in Processed
          /\ RuleAt(origin[k]) = out_lines[k]
          /\ \A i \in 1..(origin[k] - 1) : RuleAt(i) # out_lines[k]
    /\ \A i \in Processed :
          LET r == RuleAt(i)
          IN  r # None /\ ~is_whitelisted(r, white_list) => Occurrences(r) = 1
    /\ \A i \in Processed :
          IsComment(all_rules[i]) =>
             /\ Cardinality(OutAt(i)) = 1
             /\ \A k \in OutAt(i) : out_lines[k] = all_rules[i]

\* C1 witness: `host, a.com, reject` came in twice and the written output holds
\* one `0.0.0.0 a.com`.
C1_Witness ==
    /\ all_rules = <<"host, a.com, reject", "host, a.com, reject">>
    /\ white_list = {}
    /\ pc = "exit" /\ exitCode = 0
    /\ Occurrences("0.0.0.0 a.com") = 1

\* the domain of an output line as C2 reads it: X of `0.0.0.0 X`, X up to the
\* first `/` of `||X^` and `||X/path^`, in lower case
C2_Domain(x) ==
    IF StartsWith(x, "0.0.0.0 ") THEN Lower(Rest(x, 9))
    ELSE IF StartsWith(x, "||") /\ EndsWith(x, "^")
         THEN LET inner == SubSeq(x, 3, Len(x) - 1)
                  cut == {i \in 1..Len(inner) : Ch(inner, i) = "/"}
              IN  Lower(IF cut = {} THEN inner
                        ELSE SubSeq(inner, 1, (CHOOSE i \in cut : \A j \in cut : i <= j) - 1))
    ELSE ""

\* the domain equals a whitelist entry or is a strict subdomain of one
C2_Covered(domain) ==
    \E e \in white_list :
       \/ domain = e
       \/ Len(domain) > Len(e) + 1
          /\ SubSeq(domain, Len(domain) - Len(e), Len(domain)) = "." \o e

\* C2: no non-comment output line has a domain that a whitelist entry covers; a
\* translated rule that an entry covers is replaced by one diagnostic comment at
\* its position; a translated rule that no entry covers is in the output.
C2_Whitelist ==
    /\ \A k \in RuleLines : ~C2_Covered(C2_Domain(out_lines[k]))
    /\ \A i \in Processed :
          LET r == RuleAt(i)
              covered == C2_Covered(C2_Domain(r))
          IN  /\ r # None /\ covered =>
                    /\ Cardinality(OutAt(i)) = 1
                    /\ \A k \in OutAt(i) : out_lines[k] = WHITELISTED \o r
              /\ r # None /\ ~covered => Occurrences(r) = 1

\* C2 witness: with ads.example.com whitelisted, the rule of a subdomain written
\* in capitals is replaced by the comment and the rule of
\* ads.example.com.evil.com is emitted.
C2_Witness ==
    /\ "ads.example.com" \in white_list
    /\ line_i = 3
    /\ all_rules = <<"Host-Suffix,sub.Ads.Example.com,REJECT",
                     "host, ads.example.com.evil.com, reject">>
    /\ Occurrences(WHITELISTED \o "||sub.Ads.Example.com^") = 1
    /\ Occurrences("||sub.Ads.Example.com^") = 0
    /\ Occurrences("0.0.0.0 ads.example.com.evil.com") = 1

RECURSIVE ConcatOk(_)
\* the lines of the responses that succeeded, in order
ConcatOk(responses) ==
    IF responses = <<>> THEN <<>>
    ELSE (IF Head(responses).ok
          THEN StripNonBlank(SplitLines(Head(responses).text)) ELSE <<>>)
         \o ConcatOk(Tail(responses))

\* the run is over
Ended == pc \in {"exit", "crashed"}

\* some source succeeded with at least one line
SomeSourceHasRules ==
    \E i \in DOMAIN fetched :
       fetched[i].ok /\ StripNonBlank(SplitLines(fetched[i].text)) # <<>>

\* some source failed
SomeSourceFailed == \E i \in DOMAIN fetched : ~fetched[i].ok

\* the output file holds the complete new document
Written == line_i = Len(all_rules) + 1 /\ outFile = File(out_lines)

\* C3 as stated: whenever a source has succeeded with rules, the run writes the
\* output and ends with exit code 0.
C3_Original == Ended /\ SomeSourceHasRules => Written /\ exitCode = 0

\* C3 as amended: a failing source contributes nothing and does not end the run
\* (a run that has fetched ends only after it has tried every source); the lines
\* handed to the merge stage are the lines of the sources that succeeded, in
\* configuration order; and a run in which a source succeeded with rules reaches
\* the merge stage and ends with exit code 0 exactly when its write succeeded.
C3_FetchResilience ==
    /\ pc # "read_rule_urls" /\ pc # "load_white_list" /\ pc # "crashed"
          => all_rules = ConcatOk(fetched)
    /\ Len(fetched) = url_i - 1
    /\ Ended /\ fetched # <<>> => Len(fetched) = Len(urls)
    /\ Ended /\ SomeSourceHasRules =>
          /\ line_i = Len(all_rules) + 1
          /\ exitCode = 0 <=> Written

\* C3 witness: one source failed, another succeeded with rules, and the run wrote
\* its output and ended with exit code 0.
C3_Witness ==
    /\ pc = "exit" /\ exitCode = 0
    /\ SomeSourceFailed /\ SomeSourceHasRules
    /\ Written

\* C4: the output file holds its complete previous content or the complete new
\* content at every point of a run, and a run that ends with a non-zero exit code
\* leaves it as it found it.
C4_AtomicWrite ==
    /\ outFile = prevFile \/ (pc = "exit" /\ Written)
    /\ Ended /\ exitCode # 0 => outFile = prevFile

\* the set the white.txt of WhiteFiles is meant to load as
C5_Expected == {"ads.example.com", "cdn.example.net"}

\* C5: with white.txt present, the run gets past load_white_list with the set of
\* the file's domains and does not abort there.
C5_WhitelistLoads ==
    whiteFile.exists /\ pc \notin {"read_rule_urls", "load_white_list"} /\ urls # <<>>
       => pc # "crashed" /\ white_list = C5_Expected

\* a processed line that is neither a comment nor matched by one of the grammars
C6_NoGrammar(i) == ~IsComment(all_rules[i]) /\ RuleAt(i) = None

\* C6 as stated: every line that matches no grammar gets one diagnostic comment
\* at its position and is counted as unrecognized; for the input
\* [`host, a.com, reject`, `foobar`, `# note`] the counters are 1 and 1.
C6_Original ==
    /\ \A i \in Processed :
          C6_NoGrammar(i) =>
             /\ Cardinality(OutAt(i)) = 1
             /\ \A k \in OutAt(i) : IsComment(out_lines[k]) /\ EndsWith(out_lines[k], all_rules[i])
    /\ unrecognized_count = Cardinality({i \in Processed : C6_NoGrammar(i)})
    /\ line_i = 4 /\ all_rules = <<"host, a.com, reject", "foobar", "# note">>
          => converted_count = 1 /\ unrecognized_count = 1

\* C6 as amended: every line that matches no grammar gets one diagnostic comment
\* at its position: the "unrecognized" comment when the line contains "reject" in
\* any case, the "skipped" comment when it does not; the unrecognized counter is
\* the number of the former only; for the input above the counters are 1 and 0.
C6_Unrecognized ==
    /\ \A i \in Processed :
          C6_NoGrammar(i) =>
             /\ Cardinality(OutAt(i)) = 1
             /\ \A k \in OutAt(i) :
                   out_lines[k] = (IF Contains(Lower(all_rules[i]), "reject")
                                   THEN UNRECOGNIZED ELSE SKIPPED) \o all_rules[i]
    /\ \A j, k \in DOMAIN out_lines : j < k => origin[j] <= origin[k]
    /\ unrecognized_count =
          Cardinality({i \in Processed :
                          C6_NoGrammar(i) /\ Contains(Lower(all_rules[i]), "reject")})
    /\ line_i = 4 /\ all_rules = <<"host, a.com, reject", "foobar", "# note">>
          => converted_count = 1 /\ unrecognized_count = 0

\* C6 witness: two sources served the three lines of the example and a
\* `host, *, reject`: both `foobar` are reported as skipped, and the wildcard line
\* alone is counted as unrecognized.
C6_Witness ==
    /\ line_i = Len(all_rules) + 1
    /\ Len(all_rules) > 3
    /\ SubSeq(all_rules, 1, 3) = <<"host, a.com, reject", "foobar", "# note">>
    /\ Occurrences(SKIPPED \o "foobar") = 2
    /\ Occurrences(UNRECOGNIZED \o "host, *, reject") = 1
    /\ converted_count = 1
    /\ unrecognized_count = 1

\* the token of input line i when the line is a `kw, <token>, reject` line, else None
TokenOf(i, kw) == TOKEN_RE(Strip(all_rules[i]), kw)

\* the rule is new at input position i and no whitelist entry covers it
FirstAndKept(i, rule) ==
    /\ \A j \in 1..(i - 1) : RuleAt(j) # rule
    /\ ~C2_Covered(C2_Domain(rule))

\* C7 as stated: a host-suffix line (not whitelisted, not a duplicate) gives the
\* two output lines `0.0.0.0 <domain>` and `||<domain>^`, in this order.
C7_Original ==
    \A i \in Processed :
       LET d == TokenOf(i, "host-suffix")
       IN  d # None /\ FirstAndKept(i, "||" \o d \o "^") =>
              \E k \in DOMAIN out_lines :
                 /\ OutAt(i) = {k, k + 1}
                 /\ out_lines[k] = "0.0.0.0 " \o d
                 /\ out_lines[k + 1] = "||" \o d \o "^"

\* C7 as amended: a host-suffix line (not whitelisted, not a duplicate) gives
\* exactly one output line, `||<domain>^`, with the domain as written.
C7_HostSuffix ==
    \A i \in Processed :
       LET d == TokenOf(i, "host-suffix")
       IN  d # None =>
              /\ RuleAt(i) = "||" \o d \o "^"
              /\ FirstAndKept(i, "||" \o d \o "^") =>
                    /\ Cardinality(OutAt(i)) = 1
                    /\ \A k \in OutAt(i) : out_lines[k] = "||" \o d \o "^"

\* C7 witness: a host-suffix line with capitals went through an empty whitelist:
\* one `||` line with the capitals kept, and no hosts line.
C7_Witness ==
    /\ white_list = {}
    /\ line_i = Len(all_rules) + 1
    /\ \E i \in Processed : all_rules[i] = "Host-Suffix,sub.Ads.Example.com,REJECT"
    /\ Occurrences("||sub.Ads.Example.com^") = 1
    /\ Occurrences("0.0.0.0 sub.Ads.Example.com") = 0

\* C8 as stated: a host-keyword line gives exactly the one output line
\* `||*<keyword>*$important`.
C8_Original ==
    \A i \in Processed :
       LET w == TokenOf(i, "host-keyword")
       IN  w # None /\ FirstAndKept(i, RuleAt(i)) =>
              /\ Cardinality(OutAt(i)) = 1
              /\ \A k \in OutAt(i) : out_lines[k] = "||*" \o w \o "*$important"

\* C8 as amended: a host-keyword line is translated to exactly the one rule
\* `||<keyword>^`, with the keyword as written, and that rule is the one output
\* line of the input line unless it repeats an earlier rule or is whitelisted.
C8_HostKeyword ==
    \A i \in Processed :
       LET w == TokenOf(i, "host-keyword")
       IN  w # None =>
              /\ RuleAt(i) = "||" \o w \o "^"
              /\ FirstAndKept(i, "||" \o w \o "^") =>
                    /\ Cardinality(OutAt(i)) = 1
                    /\ \A k \in OutAt(i) : out_lines[k] = "||" \o w \o "^"

\* C8 witness: a host-keyword line with a hyphen in its keyword was processed.
C8_Witness ==
    /\ line_i = Len(all_rules) + 1
    /\ \E i \in Processed : all_rules[i] = "host-keyword, ad-x, reject"
    /\ Occurrences("||ad-x^") = 1

\* C9: a url line with one of the four schemes is translated to `||host/path^`
\* without the scheme, and no rule line of the output carries a scheme: a url
\* line with another scheme is not translated.
C9_UrlRule ==
    /\ \A i \in Processed :
          /\ all_rules[i] = "url, https://a.com/p, reject" => RuleAt(i) = "||a.com/p^"
          /\ all_rules[i] = "URL , a.com , Reject" => RuleAt(i) = "||a.com^"
    /\ \A k \in DOMAIN out_lines :
          ~IsComment(out_lines[k]) => ~Contains(out_lines[k], "://")

\* C10 as stated: exit code 0 only on success, and a non-zero exit code when the
\* source list is missing or empty, when no input line was translated into a rule,
\* or when the output file could not be written.
C10_Original ==
    Ended =>
       /\ exitCode = 0 => pc = "exit" /\ Written
       /\ ~configFile.exists \/ read_rule_urls(configFile) = <<>> => exitCode # 0
       /\ converted_count = 0 => exitCode # 0
       /\ ~Written => exitCode # 0

\* C10 as amended: exit code 0 exactly when the run fetched at least one line and
\* wrote the complete output; a non-zero exit code when the source list is missing
\* or empty, when no line was fetched from any source, or when the output file
\* could not be written.  Lines of which none is translated into a rule still
\* count: that run writes its output and ends with 0.
C10_ExitCode ==
    Ended =>
       /\ exitCode = 0 <=> pc = "exit" /\ all_rules # <<>> /\ Written
       /\ ~configFile.exists \/ read_rule_urls(configFile) = <<>> => exitCode # 0
       /\ all_rules = <<>> => exitCode # 0
       /\ ~Written => exitCode # 0

\* C10 witness: a run whose sources served lines but no rule, ended with 0.
C10_Witness ==
    /\ pc = "exit" /\ exitCode = 0
    /\ all_rules # <<>>
    /\ converted_count = 0
    /\ Written

====
